---- MODULE Spec2Model ----
(***************************************************************************)
(* Model of crates/oxc_language_server/src/linter.rs: the whole-project    *)
(* scan (IsolatedLintHandler::run_full: producer, dispatcher, one worker   *)
(* per path, aggregation over two mpsc channels), the per-file pipeline    *)
(* (lint_path), the single-file entry point (run_single) and the           *)
(* translation of byte-offset findings into LSP diagnostics                *)
(* (ErrorWithPosition, offset_to_position, cmp_range).                     *)
(*                                                                         *)
(* External collaborators (parser, semantic builder, rule engine, plugin,  *)
(* file system, path walker) are data: a file descriptor says what each of *)
(* them yields for that file.                                              *)
(***************************************************************************)
EXTENDS Integers, Sequences, FiniteSets, TLC

VARIABLES
    files,          \* disk: path -> file descriptor
    plugin,         \* the plugin slot Arc<RwLock<Option<LinterPlugin>>>
    mainPc,         \* run_full's own thread
    producerPc,     \* first rayon::spawn of process_paths
    walked,         \* paths the walk has yielded so far
    count,          \* the producer's local counter
    number_of_files,\* the AtomicUsize
    pathChan,       \* messages in flight on (tx_path, rx_path)
    txPathAlive,    \* tx_path not yet dropped
    rxPathAlive,    \* rx_path not yet dropped
    dispatcherPc,   \* second rayon::spawn of process_paths
    txErrorHolders, \* who holds a clone of tx_error: 0 the original, p worker p
    errChan,        \* messages in flight on (tx_error, rx_error)
    rxErrorAlive,   \* rx_error not yet dropped
    workerPc,       \* path -> position of the worker task spawned for it
    workerRet,      \* path -> what lint_path returned in that worker
    result,         \* the Vec process_diagnostics collects
    aborted,        \* a rayon task panicked: the process is gone
    single,         \* one run_single call: its input, its position, its result
    pos,            \* one offset_to_position call: its input and its result
    srv,            \* a ServerLinter session: the slot's lock, make_plugin, pipelines
    rule            \* one visit of PreferReflectApply::run: the node, the reports

vars == <<files, plugin, mainPc, producerPc, walked, count, number_of_files,
          pathChan, txPathAlive, rxPathAlive, dispatcherPc, txErrorHolders,
          errChan, rxErrorAlive, workerPc, workerRet, result, aborted,
          single, pos, srv, rule>>

fullVars == <<files, plugin, mainPc, producerPc, walked, count, number_of_files,
              pathChan, txPathAlive, rxPathAlive, dispatcherPc, txErrorHolders,
              errChan, rxErrorAlive, workerPc, workerRet, result, aborted>>

(***************************************************************************)
(* Bounds of the model.                                                    *)
(***************************************************************************)
NumPaths == 2
MaxTextLen == 3
MaxLabels == 3

None == [some |-> FALSE]
Some(v) == [some |-> TRUE, val |-> v]

\* the one element of a singleton set; {F(x) : x \in {e}} names the value of e
TheOne(S) == CHOOSE x \in S : TRUE

(***************************************************************************)
(* Source text.  A text is a sequence of characters; "a" is a one-byte     *)
(* character, "nl" the one-byte line break, "e2" a two-byte character      *)
(* (such as U+00E9).  Offsets in findings are byte offsets (miette's       *)
(* SourceSpan, oxc's Span).                                                *)
(***************************************************************************)
Chars == {"a", "nl", "e2"}

CharWidth(c) == IF c = "e2" THEN 2 ELSE 1

RECURSIVE ByteLen(_)
ByteLen(text) ==
    IF text = <<>> THEN 0 ELSE CharWidth(Head(text)) + ByteLen(Tail(text))

\* the byte offset at which character number i (0-based) starts
ByteOfChar(text, i) == ByteLen(SubSeq(text, 1, i))

\* the byte offsets that lie on a character boundary, the end included
CharBoundaries(text) == {ByteOfChar(text, i) : i \in 0..Len(text)}

\* the number of line breaks among the first n characters
RECURSIVE BreaksBefore(_, _)
BreaksBefore(text, n) ==
    IF n = 0 THEN 0
    ELSE BreaksBefore(text, n - 1) + (IF text[n] = "nl" THEN 1 ELSE 0)

\* the index (1-based) of the k-th line break at or after index i
RECURSIVE BreakAt(_, _, _)
BreakAt(text, k, i) ==
    IF text[i] # "nl" THEN BreakAt(text, k, i + 1)
    ELSE IF k = 1 THEN i
    ELSE BreakAt(text, k - 1, i + 1)

\* Rope::len_lines: one more than the number of line breaks
len_lines(text) == BreaksBefore(text, Len(text)) + 1

\* a plausible slip: the index is clamped to the text instead of rejected
try_char_to_line_clamped(char_idx, text) ==
    Some(BreaksBefore(text, IF char_idx > Len(text) THEN Len(text) ELSE char_idx))

\* Rope::try_char_to_line: the index is a CHAR index, valid up to len_chars
try_char_to_line(char_idx, text) ==
    IF char_idx > Len(text)
    THEN None
    ELSE Some(BreaksBefore(text, char_idx))

\* Rope::try_line_to_char: the char index of the first char of the line, valid
\* up to len_lines (one past the last line is the end of the text)
try_line_to_char(line, text) ==
    IF line > len_lines(text)
    THEN None
    ELSE IF line = 0 THEN Some(0)
    ELSE IF line = len_lines(text) THEN Some(Len(text))
    ELSE Some(BreakAt(text, line, 1))

Position(line, character) == [line |-> line, character |-> character]

DefaultPosition == Position(0, 0)

offset_to_position(offset, text) ==
    LET line == try_char_to_line(offset, text)
    IN  IF ~line.some THEN None
        ELSE LET first_char_of_line == try_line_to_char(line.val, text)
             IN  IF ~first_char_of_line.some THEN None
                 ELSE Some(Position(line.val, offset - first_char_of_line.val))

unwrap_or_default(p) == IF p.some THEN p.val ELSE DefaultPosition

(***************************************************************************)
(* Findings.  An Error (miette) has a severity, a message, an optional     *)
(* help text and labeled spans [offset, len, label]; a Message of the rule *)
(* engine is an Error with an optional Fix [content, start, end].          *)
(***************************************************************************)
Range(start, end) == [start |-> start, end |-> end]

\* derived Ord of lsp_types::Position: line, then character
cmp_position(a, b) ==
    IF a.line < b.line THEN "Less"
    ELSE IF a.line > b.line THEN "Greater"
    ELSE IF a.character < b.character THEN "Less"
    ELSE IF a.character > b.character THEN "Greater"
    ELSE "Equal"

\* a plausible slip: the ends are never compared
cmp_range_start_only(first, other) == cmp_position(first.start, other.start)

cmp_range(first, other) ==
    IF cmp_position(first.start, other.start) = "Equal"
    THEN cmp_position(first.end, other.end)
    ELSE cmp_position(first.start, other.start)

\* u32::MAX, the sentinel line and character of to_lsp_diagnostic.  The model
\* checker's integers are 32-bit signed, so the sentinel is the largest value it
\* represents; only its order against the positions of a text matters, and every
\* position of a text of the model is far below it.
U32Max == 2147483647

LabeledSpanWithPosition(labeled_span, text) ==
    [start_pos |-> unwrap_or_default(offset_to_position(labeled_span.offset, text)),
     end_pos   |-> unwrap_or_default(
                      offset_to_position(labeled_span.offset + labeled_span.len, text)),
     message   |-> labeled_span.label]

\* ErrorWithPosition::new; indexing labels_with_pos[0] panics when there is no
\* label.  start_pos is the first label's start, end_pos the last label's end.
ErrorWithPosition_new(error, text, fixed_content) ==
    IF Len(error.labels) = 0
    THEN [panic |-> TRUE]
    ELSE [panic           |-> FALSE,
          start_pos       |-> LabeledSpanWithPosition(error.labels[1], text).start_pos,
          end_pos         |-> LabeledSpanWithPosition(
                                  error.labels[Len(error.labels)], text).end_pos,
          miette_err      |-> error,
          fixed_content   |-> fixed_content,
          labels_with_pos |-> [i \in 1..Len(error.labels) |->
                                  LabeledSpanWithPosition(error.labels[i], text)]]

\* the fold of to_lsp_diagnostic over the related information, from the
\* sentinel range (u32::MAX everywhere)
RECURSIVE min_range(_, _)
min_range(ret_range, infos) ==
    IF infos = <<>> THEN ret_range
    ELSE min_range(IF cmp_range(ret_range, Head(infos).range) = "Greater"
                   THEN Head(infos).range
                   ELSE ret_range,
                   Tail(infos))

SeverityOf(error) == IF error.severity = "Error" THEN "ERROR" ELSE "WARNING"

\* miette_err.to_string(), or "{err}\nhelp: {help}"
MessageOf(error) ==
    IF error.help.some THEN <<error.message, "\nhelp: ", error.help.val>>
    ELSE <<error.message>>

\* a plausible slip: a label without text gives no related entry
to_lsp_diagnostic_labelled_only(e, path) ==
    LET labelled == SelectSeq(e.labels_with_pos, LAMBDA l : l.message.some)
        related_information ==
            [i \in 1..Len(labelled) |->
                [uri     |-> path,
                 range   |-> Range(labelled[i].start_pos, labelled[i].end_pos),
                 message |-> labelled[i].message.val]]
        sentinel == Range(Position(U32Max, U32Max), Position(U32Max, U32Max))
    IN  [range               |-> min_range(sentinel, related_information),
         severity            |-> SeverityOf(e.miette_err),
         message             |-> MessageOf(e.miette_err),
         source              |-> "oxc",
         related_information |-> related_information]

to_lsp_diagnostic(e, path) ==
    LET related_information ==
            [i \in 1..Len(e.labels_with_pos) |->
                [uri     |-> path,
                 range   |-> Range(e.labels_with_pos[i].start_pos,
                                   e.labels_with_pos[i].end_pos),
                 message |-> IF e.labels_with_pos[i].message.some
                             THEN e.labels_with_pos[i].message.val ELSE ""]]
        sentinel == Range(Position(U32Max, U32Max), Position(U32Max, U32Max))
    IN  [range               |-> min_range(sentinel, related_information),
         severity            |-> SeverityOf(e.miette_err),
         message             |-> MessageOf(e.miette_err),
         source              |-> "oxc",
         related_information |-> related_information]

into_diagnostic_report(e, path) ==
    [diagnostic    |-> to_lsp_diagnostic(e, path),
     fixed_content |-> e.fixed_content]

(***************************************************************************)
(* The per-file pipeline.  A file descriptor                               *)
(*   [ext, readable, text, parse_errors, semantic_errors, plugin_ok,       *)
(*    plugin_messages, messages]                                           *)
(* says what the file system and the collaborators yield for the file:     *)
(* the parser's errors, the semantic builder's errors, whether the         *)
(* plugin's lint_file succeeds and what it adds, the rule engine's         *)
(* messages.                                                               *)
(***************************************************************************)
\* oxc_span::VALID_EXTENSIONS, as far as the model tells extensions apart
VALID_EXTENSIONS == {"js", "ts"}

\* oxc_linter::partial_loader::LINT_PARTIAL_LOADER_EXT
LINT_PARTIAL_LOADER_EXT == {"vue"}

get_extensions == VALID_EXTENSIONS \cup LINT_PARTIAL_LOADER_EXT

\* a plausible slip: any path with an extension is wanted
is_wanted_ext_any(ext) == ext # ""

\* an extension of "" is a path without extension
is_wanted_ext(ext) == ext # "" /\ ext \in get_extensions

\* PartialLoader::Vue.parse: the script embedded in the file, here the text
\* after the first line break (the template line) of the file
RECURSIVE partial_loader_parse(_)
partial_loader_parse(source_text) ==
    IF source_text = <<>> THEN <<>>
    ELSE IF Head(source_text) = "nl" THEN Tail(source_text)
    ELSE partial_loader_parse(Tail(source_text))

\* a plausible slip: the disk is read first, the override text only as a fallback
read_file_disk_first(file, source_text) ==
    IF file.readable
    THEN [panic |-> FALSE, text |-> file.text, disk_read |-> TRUE]
    ELSE IF source_text.some
    THEN [panic |-> FALSE, text |-> source_text.val, disk_read |-> TRUE]
    ELSE [panic |-> TRUE, disk_read |-> TRUE]

\* the closure read_file: the override text if any, else the disk
read_file(file, source_text) ==
    IF source_text.some
    THEN [panic |-> FALSE, text |-> source_text.val, disk_read |-> FALSE]
    ELSE IF file.readable
    THEN [panic |-> FALSE, text |-> file.text, disk_read |-> TRUE]
    ELSE [panic |-> TRUE, disk_read |-> TRUE]

get_source_type_and_text(file, source_text) ==
    IF file.ext \in VALID_EXTENSIONS
    THEN LET r == read_file(file, source_text)
         IN  IF r.panic THEN [kind |-> "Panic", disk_read |-> r.disk_read]
             ELSE [kind |-> "Some", text |-> r.text, disk_read |-> r.disk_read]
    ELSE IF file.ext = "" THEN [kind |-> "None", disk_read |-> FALSE]
    ELSE IF file.ext # "vue" THEN [kind |-> "None", disk_read |-> FALSE]
    ELSE LET r == read_file(file, source_text)
         IN  IF r.panic THEN [kind |-> "Panic", disk_read |-> r.disk_read]
             ELSE [kind |-> "Some", text |-> partial_loader_parse(r.text),
                   disk_read |-> r.disk_read]

\* wrap_diagnostics: one ErrorWithPosition per report, in order; a report
\* without labels panics in ErrorWithPosition::new
wrap_diagnostics(path, source_text, reports) ==
    TheOne({ IF \E i \in 1..Len(diagnostics) : diagnostics[i].panic
             THEN [kind |-> "Panic"]
             ELSE [kind |-> "Some", path |-> path, errors |-> diagnostics] :
             diagnostics \in
                {[i \in 1..Len(rs) |->
                    ErrorWithPosition_new(rs[i].error, source_text, rs[i].fixed_content)] :
                 rs \in {reports}} })

\* parse or semantic errors become reports without a fix
NoFixReports(errors) ==
    [i \in 1..Len(errors) |-> [error |-> errors[i], fixed_content |-> None]]

\* a plausible slip: the emptiness test of the parser's errors is lost
parse_failed_never(file) == FALSE

\* !ret.errors.is_empty()
parse_failed(file) == Len(file.parse_errors) > 0

\* !semantic_ret.errors.is_empty()
semantic_failed(file) == Len(file.semantic_errors) > 0

\* a plausible slip: the plugin's Err is dropped (.ok()) instead of unwrapped
plugin_stage_swallow(slot, file) ==
    IF slot.poisoned THEN "not_run"
    ELSE IF ~slot.value.some THEN "not_run"
    ELSE "ok"

\* the block around plugin.read(): a poisoned lock or an empty slot skips the
\* plugin; lint_file(..).unwrap() panics when the plugin fails
plugin_stage(slot, file) ==
    IF slot.poisoned THEN "not_run"
    ELSE IF ~slot.value.some THEN "not_run"
    ELSE IF file.plugin_ok THEN "ok"
    ELSE "panic"

\* linter.run(lint_ctx): what the plugin put into the context, then the rules
linter_run(file, plugin_ran) ==
    (IF plugin_ran THEN file.plugin_messages ELSE <<>>) \o file.messages

\* a plausible slip: the early return on an empty result is lost
result_is_empty_never(msgs) == FALSE

\* result.is_empty()
result_is_empty(msgs) == Len(msgs) = 0

\* the fix of a message, mapped to positions when fix mode is on
FixedContentOf(msg, source_text) ==
    IF msg.fix.some
    THEN Some([code  |-> msg.fix.val.content,
               range |-> Range(
                   unwrap_or_default(offset_to_position(msg.fix.val.start, source_text)),
                   unwrap_or_default(offset_to_position(msg.fix.val.end, source_text)))])
    ELSE None

\* a plausible slip: the test of the fix option is lost
RuleReports_always_fix(linter, msgs, source_text) ==
    [i \in 1..Len(msgs) |->
        [error |-> msgs[i].error,
         fixed_content |-> FixedContentOf(msgs[i], source_text)]]

RuleReports(linter, msgs, source_text) ==
    IF linter.fix
    THEN [i \in 1..Len(msgs) |->
            [error |-> msgs[i].error,
             fixed_content |-> FixedContentOf(msgs[i], source_text)]]
    ELSE [i \in 1..Len(msgs) |-> [error |-> msgs[i].error, fixed_content |-> None]]

\* lint_path after get_source_type_and_text returned Some: text is the text to
\* analyse
lint_text(linter, path, file, slot, text) ==
    IF parse_failed(file)
    THEN wrap_diagnostics(path, text, NoFixReports(file.parse_errors))
            @@ [stages |-> <<"parse">>]
    ELSE IF semantic_failed(file)
    THEN wrap_diagnostics(path, text, NoFixReports(file.semantic_errors))
            @@ [stages |-> <<"parse", "semantic">>]
    ELSE LET pl == plugin_stage(slot, file)
             upto == IF pl = "not_run" THEN <<"parse", "semantic">>
                     ELSE <<"parse", "semantic", "plugin">>
         IN  IF pl = "panic" THEN [kind |-> "Panic", stages |-> upto]
             ELSE TheOne({ IF result_is_empty(msgs)
                           THEN [kind |-> "None", stages |-> Append(upto, "rules")]
                           ELSE wrap_diagnostics(path, text,
                                                 RuleReports(linter, msgs, text))
                                  @@ [stages |-> Append(upto, "rules")] :
                           msgs \in {linter_run(file, pl = "ok")} })

\* lint_path: kind is None, Some (with path and errors) or Panic; stages lists
\* the stages that ran, in order; disk_read tells whether the file was read
lint_path(linter, path, file, slot, source_text) ==
    TheOne({ IF src.kind = "Some"
             THEN lint_text(linter, path, file, slot, src.text)
                    @@ [disk_read |-> src.disk_read]
             ELSE [kind |-> src.kind, stages |-> <<>>, disk_read |-> src.disk_read] :
             src \in {get_source_type_and_text(file, source_text)} })

(***************************************************************************)
(* run_single: the primary diagnostics of the file, then one hint per      *)
(* related location whose range differs from its diagnostic's range.       *)
(***************************************************************************)
InvertedDiagnostic(d, r, path) ==
    [diagnostic |->
        [range               |-> r.range,
         severity            |-> "HINT",
         message             |-> <<r.message>>,
         source              |-> "oxc",
         related_information |->
            <<[uri |-> path, range |-> d.diagnostic.range,
               message |-> "original diagnostic"]>>],
     fixed_content |-> None]

\* a plausible slip: the test against the diagnostic's own range is lost
skip_related_never(d, r) == FALSE

\* r.location.range == d.diagnostic.range
skip_related(d, r) == r.range = d.diagnostic.range

\* a plausible slip: the hints of one diagnostic are collected last label first
RECURSIVE inverted_of_reversed(_, _, _)
inverted_of_reversed(d, related_info, path) ==
    IF related_info = <<>> THEN <<>>
    ELSE inverted_of_reversed(d, Tail(related_info), path)
         \o (IF skip_related(d, Head(related_info)) THEN <<>>
             ELSE <<InvertedDiagnostic(d, Head(related_info), path)>>)

\* the inner loop over one diagnostic's related information
RECURSIVE inverted_of(_, _, _)
inverted_of(d, related_info, path) ==
    IF related_info = <<>> THEN <<>>
    ELSE (IF skip_related(d, Head(related_info)) THEN <<>>
          ELSE <<InvertedDiagnostic(d, Head(related_info), path)>>)
         \o inverted_of(d, Tail(related_info), path)

\* the outer loop over the diagnostics
RECURSIVE inverted_diagnostics(_, _)
inverted_diagnostics(diagnostics, path) ==
    IF diagnostics = <<>> THEN <<>>
    ELSE inverted_of(Head(diagnostics),
                     Head(diagnostics).diagnostic.related_information, path)
         \o inverted_diagnostics(Tail(diagnostics), path)

Reports(errors, path) ==
    [i \in 1..Len(errors) |-> into_diagnostic_report(errors[i], path)]

\* kind is None (the absent sentinel), Some (with list) or Panic; lint is what
\* lint_path returned
run_single(linter, path, file, slot, content) ==
    IF is_wanted_ext(file.ext)
    THEN LET ret == lint_path(linter, path, file, slot, content)
         IN  IF ret.kind = "Panic" THEN [kind |-> "Panic", lint |-> ret]
             ELSE IF ret.kind = "None"
             THEN [kind |-> "Some", list |-> <<>>, lint |-> ret]
             ELSE LET diagnostics == Reports(ret.errors, ret.path)
                  IN  [kind |-> "Some",
                       list |-> diagnostics \o inverted_diagnostics(diagnostics, path),
                       lint |-> ret]
    ELSE [kind |-> "None"]

(***************************************************************************)
(* Inputs.  Spans are byte spans [offset, len, label]; a span may end one  *)
(* byte past the end of the text.                                          *)
(***************************************************************************)
MaxSpanLen == 1

\* the least number of labeled spans of a finding: the parser, the semantic
\* builder, the rules and the plugin label every finding at least once
MinLabels == 1

\* "a\na" and "\u{e9}\na"
Texts == {<<"a", "nl", "a">>, <<"e2", "nl", "a">>}

Spans(text) ==
    {[offset |-> o, len |-> l,
      label |-> IF l = 0 THEN None ELSE Some("label")] :
        o \in CharBoundaries(text), l \in 0..MaxSpanLen}

\* the sequences over S of length lo to hi
SeqsOf(S, lo, hi) == UNION {[1..n -> S] : n \in lo..hi}

ParseError(labels) ==
    [severity |-> "Error", message |-> "Unexpected token", help |-> None,
     labels |-> labels]

SemanticError(labels) ==
    [severity |-> "Error", message |-> "Identifier has already been declared",
     help |-> None, labels |-> labels]

Violation(labels) ==
    [severity |-> "Warning", message |-> "Prefer Reflect.apply()",
     help |-> Some("Use Reflect.apply()"), labels |-> labels]

FixOf(span) ==
    Some([content |-> "Reflect.apply(foo, null)",
          start |-> span.offset, end |-> span.offset + span.len])

Message(error, fix) == [error |-> error, fix |-> fix]

OneLabel == <<[offset |-> 0, len |-> 1, label |-> Some("label")]>>

File(ext, readable, text, pe, se, pok, pm, ms) ==
    [ext |-> ext, readable |-> readable, text |-> text, parse_errors |-> pe,
     semantic_errors |-> se, plugin_ok |-> pok, plugin_messages |-> pm,
     messages |-> ms]

TwoLabels ==
    <<[offset |-> 2, len |-> 1, label |-> Some("label")],
      [offset |-> 0, len |-> 0, label |-> None]>>

\* files whose one interesting finding has the labels ls: as a parse error, and
\* as a rule violation with a fix that is followed by a second violation, of
\* two labels
FilesAround(text, ls) ==
    LET m1 == Message(Violation(TwoLabels), None)
    IN  { File("js", TRUE, text, <<ParseError(ls)>>, <<>>, TRUE, <<>>, <<>>),
          File("js", TRUE, text, <<>>, <<>>, TRUE, <<>>,
               <<Message(Violation(ls), FixOf(ls[1])), m1>>) }

\* what the collaborators can yield for a file: each stage's errors, the
\* plugin's outcome and messages, the rule engine's messages
StageFiles(ext, readable, text) ==
    LET m0 == Message(Violation(OneLabel), FixOf(OneLabel[1]))
        m1 == Message(Violation(TwoLabels), None)
    IN  { File(ext, readable, text, pe, se, pok, pm, ms) :
            pe \in {<<>>, <<ParseError(OneLabel)>>,
                    <<ParseError(TwoLabels), ParseError(OneLabel)>>},
            se \in {<<>>, <<SemanticError(TwoLabels)>>},
            pok \in BOOLEAN,
            pm \in {<<>>, <<m1>>},
            ms \in {<<>>, <<m0>>, <<m1, m0>>} }

\* every stage outcome for a readable script, and the files that are unreadable,
\* embedded in a template, of an unwanted extension or without extension
BroadFiles ==
    UNION { StageFiles("js", TRUE, t)
            \cup { File("ts", TRUE, t, <<>>, <<>>, TRUE, <<>>, <<>>),
                   File("js", FALSE, t, <<>>, <<>>, TRUE, <<>>, <<>>),
                   File("vue", FALSE, t, <<>>, <<>>, TRUE, <<>>, <<>>),
                   File("vue", TRUE, t, <<>>, <<>>, TRUE, <<>>,
                        <<Message(Violation(TwoLabels), None)>>),
                   File("txt", TRUE, t, <<>>, <<>>, TRUE, <<>>,
                        <<Message(Violation(OneLabel), None)>>),
                   File("", TRUE, t, <<>>, <<>>, TRUE, <<>>, <<>>) } :
            t \in Texts }

\* what the editor's buffer can hold instead of the disk's text: "\na\na"
\* breaks its lines elsewhere than either text on disk
OverrideTexts == Texts \cup {<<"nl", "a", "nl", "a">>}

Slot(value) == [value |-> value, poisoned |-> FALSE]

\* the slot as ServerLinter::new leaves it, or after a make_plugin that found
\* the plugin directory
Slots == {Slot(None), Slot(Some("plugin"))}

Linters == [fix : BOOLEAN]

\* ServerLinter::new: Linter::new().with_fix(true)
ServerLinterConfig == [fix |-> TRUE]

Idle == [pc |-> "off"]

FullIdle ==
    /\ mainPc = "off"
    /\ producerPc = "off"
    /\ walked = {}
    /\ count = 0
    /\ number_of_files = 0
    /\ pathChan = <<>>
    /\ txPathAlive = FALSE
    /\ rxPathAlive = FALSE
    /\ dispatcherPc = "off"
    /\ txErrorHolders = {}
    /\ errChan = <<>>
    /\ rxErrorAlive = FALSE
    /\ workerPc = <<>>
    /\ workerRet = <<>>
    /\ result = <<>>
    /\ aborted = FALSE

(***************************************************************************)
(* One call of IsolatedLintHandler::run_single on path 1.                  *)
(***************************************************************************)
\* every label sequence, with the slot empty, the disk as the text and the
\* linter as the server configures it
InitRich ==
    /\ \E t \in Texts : \E ls \in SeqsOf(Spans(t), MinLabels, MaxLabels) :
          \E f \in FilesAround(t, ls) : files = <<f>>
    /\ plugin = Slot(None)
    /\ single = [pc |-> "called", linter |-> ServerLinterConfig, content |-> None]

\* every stage outcome, slot, fix mode and override text
InitBroad ==
    /\ \E f \in BroadFiles : files = <<f>>
    /\ plugin \in Slots
    /\ \E l \in Linters, c \in {None} \cup {Some(t) : t \in OverrideTexts} :
          single = [pc |-> "called", linter |-> l, content |-> c]

InitSingle ==
    /\ FullIdle
    /\ pos = Idle
    /\ srv = Idle
    /\ rule = Idle
    /\ (InitRich \/ InitBroad)

\* a plausible slip: the pipeline takes the plugin out of the slot (take())
slot_after_lint_taken(slot) == [slot EXCEPT !.value = None]

\* the slot once lint_path is over: the read guard is gone with its block, and
\* drop(plugin) drops the pipeline's own Arc clone, never the slot's content
slot_after_lint(slot) == slot

scanVars == <<mainPc, producerPc, walked, count, number_of_files, pathChan,
              txPathAlive, rxPathAlive, dispatcherPc, txErrorHolders, errChan,
              rxErrorAlive, workerPc, workerRet, result, aborted>>

RunSingle ==
    /\ single.pc = "called"
    /\ single' = [single EXCEPT !.pc = "done"] @@
                 [ret |-> run_single(single.linter, 1, files[1], plugin, single.content)]
    /\ plugin' = slot_after_lint(plugin)
    /\ UNCHANGED <<files, scanVars, pos, srv, rule>>

\* the same call once more: same path, same content, the disk and the slot as
\* the first call left them
RunSingleAgain ==
    /\ single.pc = "done"
    /\ single' = [single EXCEPT !.pc = "again"] @@
                 [ret2 |-> run_single(single.linter, 1, files[1], plugin, single.content)]
    /\ plugin' = slot_after_lint(plugin)
    /\ UNCHANGED <<files, scanVars, pos, srv, rule>>

NextSingle == RunSingle

SpecSingle == InitSingle /\ [][NextSingle]_vars

(***************************************************************************)
(* Two calls of run_single in a row, on the same path with the same        *)
(* content: every stage outcome, slot, fix mode and override text.         *)
(***************************************************************************)
InitTwice ==
    /\ FullIdle
    /\ pos = Idle
    /\ srv = Idle
    /\ rule = Idle
    /\ InitBroad

NextTwice == RunSingle \/ RunSingleAgain

SpecTwice == InitTwice /\ [][NextTwice]_vars

(***************************************************************************)
(* run_full.  Four kinds of task: run_full's own thread (process_paths,    *)
(* then process_diagnostics), the producer and the dispatcher that         *)
(* process_paths hands to rayon::spawn, and one worker per received path.  *)
(* A panic inside a rayon::spawn task reaches rayon's panic handler; none  *)
(* is installed, and rayon's default then aborts the process.              *)
(***************************************************************************)
Paths == 1..NumPaths

\* what the walk can find under the root: files of the accepted extensions
WalkedFiles ==
    LET text == <<"a", "nl", "a">>
        m0 == Message(Violation(OneLabel), FixOf(OneLabel[1]))
        m1 == Message(Violation(TwoLabels), None)
    IN  { File("js", TRUE, text, <<>>, <<>>, TRUE, <<>>, <<>>),
          File("ts", TRUE, text, <<ParseError(OneLabel)>>, <<>>, TRUE, <<>>, <<m0>>),
          File("js", TRUE, text, <<>>, <<>>, TRUE, <<>>, <<m1, m0>>),
          File("js", FALSE, text, <<>>, <<>>, TRUE, <<>>, <<>>),
          File("vue", TRUE, text, <<>>, <<>>, FALSE, <<>>, <<m0>>) }

NotRun == [kind |-> "NotRun"]

InitFull ==
    /\ files \in [Paths -> WalkedFiles]
    /\ plugin \in Slots
    /\ mainPc = "run_full"
    /\ producerPc = "unspawned"
    /\ walked = {}
    /\ count = 0
    /\ number_of_files = 0
    /\ pathChan = <<>>
    /\ txPathAlive = FALSE
    /\ rxPathAlive = FALSE
    /\ dispatcherPc = "unspawned"
    /\ txErrorHolders = {}
    /\ errChan = <<>>
    /\ rxErrorAlive = FALSE
    /\ workerPc = [p \in Paths |-> "unspawned"]
    /\ workerRet = [p \in Paths |-> NotRun]
    /\ result = <<>>
    /\ aborted = FALSE
    /\ single = Idle
    /\ pos = Idle
    /\ srv = Idle
    /\ rule = Idle

\* run_full up to the return of process_paths: both channels exist, the
\* producer owns tx_path, the dispatcher owns rx_path and the original tx_error
ProcessPaths ==
    /\ ~aborted
    /\ mainPc = "run_full"
    /\ mainPc' = "process_diagnostics"
    /\ txPathAlive' = TRUE
    /\ rxPathAlive' = TRUE
    /\ rxErrorAlive' = TRUE
    /\ txErrorHolders' = {0}
    /\ producerPc' = "walking"
    /\ dispatcherPc' = "receiving"
    /\ UNCHANGED <<files, plugin, walked, count, number_of_files, pathChan, errChan,
                   workerPc, workerRet, result, aborted, single, pos, srv, rule>>

\* one turn of walk.iter().for_each: the walk yields the paths in any order;
\* send(path).unwrap() panics when rx_path is gone
ProducerSend ==
    /\ ~aborted
    /\ producerPc = "walking"
    /\ \E path \in Paths \ walked :
          /\ walked' = walked \cup {path}
          /\ count' = count + 1
          /\ IF rxPathAlive
             THEN pathChan' = Append(pathChan, path) /\ UNCHANGED aborted
             ELSE aborted' = TRUE /\ UNCHANGED pathChan
    /\ UNCHANGED <<files, plugin, mainPc, producerPc, number_of_files, txPathAlive,
                   rxPathAlive, dispatcherPc, txErrorHolders, errChan, rxErrorAlive,
                   workerPc, workerRet, result, single, pos, srv, rule>>

\* number_of_files.store(count, Ordering::Relaxed)
ProducerStore ==
    /\ ~aborted
    /\ producerPc = "walking"
    /\ walked = Paths
    /\ number_of_files' = count
    /\ producerPc' = "stored"
    /\ UNCHANGED <<files, plugin, mainPc, walked, count, pathChan, txPathAlive,
                   rxPathAlive, dispatcherPc, txErrorHolders, errChan, rxErrorAlive,
                   workerPc, workerRet, result, aborted, single, pos, srv, rule>>

\* the producer's closure ends: tx_path, moved into it, is dropped
ProducerExit ==
    /\ ~aborted
    /\ producerPc = "stored"
    /\ txPathAlive' = FALSE
    /\ producerPc' = "done"
    /\ UNCHANGED <<files, plugin, mainPc, walked, count, number_of_files, pathChan,
                   rxPathAlive, dispatcherPc, txErrorHolders, errChan, rxErrorAlive,
                   workerPc, workerRet, result, aborted, single, pos, srv, rule>>

\* a plausible slip: the worker is handed no clone of tx_error
holders_after_spawn_no_clone(path) == txErrorHolders

\* let tx_error = tx_error.clone(), moved into the worker's closure
holders_after_spawn(path) == txErrorHolders \cup {path}

\* rx_path.recv() returns Ok(path): a worker is spawned for the path
DispatcherRecv ==
    /\ ~aborted
    /\ dispatcherPc = "receiving"
    /\ pathChan # <<>>
    /\ LET path == Head(pathChan)
       IN  /\ pathChan' = Tail(pathChan)
           /\ txErrorHolders' = holders_after_spawn(path)
           /\ workerPc' = [workerPc EXCEPT ![path] = "spawned"]
    /\ UNCHANGED <<files, plugin, mainPc, producerPc, walked, count, number_of_files,
                   txPathAlive, rxPathAlive, dispatcherPc, errChan, rxErrorAlive,
                   workerRet, result, aborted, single, pos, srv, rule>>

\* a plausible slip: the original tx_error outlives the dispatcher (run_full
\* keeps it and hands process_paths a clone)
holders_after_dispatcher_kept == txErrorHolders

\* the dispatcher's closure ends: its tx_error is dropped
holders_after_dispatcher == txErrorHolders \ {0}

\* a plausible slip: the loop ends as soon as no path is waiting (try_recv)
recv_is_err_when_empty == pathChan = <<>>

\* rx_path.recv() is Err: the channel is empty and its sender is dropped
recv_is_err == pathChan = <<>> /\ ~txPathAlive

\* rx_path.recv() returns Err: the channel is empty and tx_path is dropped; the
\* loop and the closure end, rx_path and the original tx_error are dropped
DispatcherExit ==
    /\ ~aborted
    /\ dispatcherPc = "receiving"
    /\ recv_is_err
    /\ dispatcherPc' = "done"
    /\ rxPathAlive' = FALSE
    /\ txErrorHolders' = holders_after_dispatcher
    /\ UNCHANGED <<files, plugin, mainPc, producerPc, walked, count, number_of_files,
                   pathChan, txPathAlive, errChan, rxErrorAlive, workerPc, workerRet,
                   result, aborted, single, pos, srv, rule>>

\* the worker runs lint_path(&linter, &path, plugin, None); a panic in it (an
\* unreadable file, a failing plugin) aborts the process
WorkerLint(path) ==
    /\ ~aborted
    /\ workerPc[path] = "spawned"
    /\ \E ret \in {lint_path(ServerLinterConfig, path, files[path], plugin, None)} :
           IF ret.kind = "Panic"
           THEN /\ aborted' = TRUE
                /\ workerPc' = [workerPc EXCEPT ![path] = "panicked"]
                /\ UNCHANGED workerRet
           ELSE /\ workerRet' = [workerRet EXCEPT ![path] = ret]
                /\ workerPc' = [workerPc EXCEPT ![path] = "linted"]
                /\ UNCHANGED aborted
    /\ UNCHANGED <<files, plugin, mainPc, producerPc, walked, count, number_of_files,
                   pathChan, txPathAlive, rxPathAlive, dispatcherPc, txErrorHolders,
                   errChan, rxErrorAlive, result, single, pos, srv, rule>>

\* if let Some(diagnostics) = ..: tx_error.send(diagnostics).unwrap(), which
\* panics when rx_error is gone
WorkerSend(path) ==
    /\ ~aborted
    /\ workerPc[path] = "linted"
    /\ workerRet[path].kind = "Some"
    /\ workerPc' = [workerPc EXCEPT ![path] = "sent"]
    /\ IF rxErrorAlive
       THEN /\ errChan' = Append(errChan, [path |-> workerRet[path].path,
                                            errors |-> workerRet[path].errors])
            /\ UNCHANGED aborted
       ELSE aborted' = TRUE /\ UNCHANGED errChan
    /\ UNCHANGED <<files, plugin, mainPc, producerPc, walked, count, number_of_files,
                   pathChan, txPathAlive, rxPathAlive, dispatcherPc, txErrorHolders,
                   rxErrorAlive, workerRet, result, single, pos, srv, rule>>

\* drop(tx_error), after the send or at once when lint_path returned None
WorkerDrop(path) ==
    /\ ~aborted
    /\ \/ workerPc[path] = "sent"
       \/ workerPc[path] = "linted" /\ workerRet[path].kind = "None"
    /\ workerPc' = [workerPc EXCEPT ![path] = "done"]
    /\ txErrorHolders' = txErrorHolders \ {path}
    /\ UNCHANGED <<files, plugin, mainPc, producerPc, walked, count, number_of_files,
                   pathChan, txPathAlive, rxPathAlive, dispatcherPc, errChan,
                   rxErrorAlive, workerRet, result, aborted, single, pos, srv, rule>>

\* one turn of rx_error.iter().map(..): a message is received and translated
AggregateRecv ==
    /\ ~aborted
    /\ mainPc = "process_diagnostics"
    /\ errChan # <<>>
    /\ LET m == Head(errChan)
       IN  result' = Append(result, [path |-> m.path,
                                     reports |-> Reports(m.errors, m.path)])
    /\ errChan' = Tail(errChan)
    /\ UNCHANGED <<files, plugin, mainPc, producerPc, walked, count, number_of_files,
                   pathChan, txPathAlive, rxPathAlive, dispatcherPc, txErrorHolders,
                   rxErrorAlive, workerPc, workerRet, aborted, single, pos, srv, rule>>

\* rx_error.iter() ends: the channel is empty and every sender is dropped;
\* collect() returns and with it run_full, dropping rx_error
AggregateReturn ==
    /\ ~aborted
    /\ mainPc = "process_diagnostics"
    /\ errChan = <<>>
    /\ txErrorHolders = {}
    /\ mainPc' = "returned"
    /\ rxErrorAlive' = FALSE
    /\ UNCHANGED <<files, plugin, producerPc, walked, count, number_of_files,
                   pathChan, txPathAlive, rxPathAlive, dispatcherPc, txErrorHolders,
                   errChan, workerPc, workerRet, result, aborted, single, pos, srv, rule>>

Next ==
    \/ ProcessPaths
    \/ ProducerSend
    \/ ProducerStore
    \/ ProducerExit
    \/ DispatcherRecv
    \/ DispatcherExit
    \/ \E path \in Paths : WorkerSend(path)
    \/ \E path \in Paths : WorkerDrop(path)
    \/ AggregateRecv
    \/ AggregateReturn
    \/ \E path \in Paths : WorkerLint(path)

Spec == InitFull /\ [][Next]_vars

\* run_full is called from outside the pool, so rayon queues the producer before
\* the dispatcher and hands the workers to whichever thread is free: a pool of
\* any size eventually runs a task that can run, and run_full's own thread is
\* never starved
FairSpec == InitFull /\ [][Next]_vars /\ WF_vars(Next)

(***************************************************************************)
(* A ServerLinter session at the granularity of the slot's RwLock: calls   *)
(* of make_plugin, one after another, while file pipelines (of a scan or   *)
(* of single-file calls) run on other threads.  srv is                     *)
(*   [writer, readers, log, mk, pipe, invoked]:                            *)
(* whether the write guard is held, which pipelines hold a read guard, the *)
(* make_plugin calls so far (whether the plugin directory exists, whether  *)
(* LinterPlugin::new succeeds on it, how the call ended), the position of  *)
(* the current call, each pipeline's position, and whether it invoked the  *)
(* plugin.  A panic unwinds the thread that panicked; a write guard        *)
(* dropped while unwinding poisons the lock, a read guard does not.        *)
(***************************************************************************)
MaxCalls == 2

\* the files of a session: one to which the plugin adds a finding, one on which
\* the plugin fails, one that does not parse
SessionFiles ==
    LET text == <<"a", "nl", "a">>
        m0 == Message(Violation(OneLabel), None)
    IN  { File("js", TRUE, text, <<>>, <<>>, TRUE, <<m0>>, <<>>),
          File("js", TRUE, text, <<>>, <<>>, FALSE, <<>>, <<m0>>),
          File("ts", TRUE, text, <<ParseError(OneLabel)>>, <<>>, TRUE, <<>>, <<>>) }

\* ServerLinter::new: an empty slot behind a fresh lock
InitSession ==
    /\ FullIdle
    /\ single = Idle
    /\ pos = Idle
    /\ rule = Idle
    /\ files \in [Paths -> SessionFiles]
    /\ plugin = Slot(None)
    /\ srv = [writer  |-> FALSE,
              readers |-> {},
              log     |-> <<>>,
              mk      |-> "idle",
              pipe    |-> [p \in Paths |-> "start"],
              invoked |-> [p \in Paths |-> FALSE]]

\* the call that is running: the last of the log
ThisCall == srv.log[Len(srv.log)]

Ended(how) == [srv.log EXCEPT ![Len(srv.log)].end = how]

\* make_plugin is called: the path of the plugin directory is built
MakePluginEnter ==
    /\ srv.mk = "idle"
    /\ Len(srv.log) < MaxCalls
    /\ \E dir \in BOOLEAN, ok \in BOOLEAN :
          srv' = [srv EXCEPT !.mk = "exists",
                             !.log = Append(@, [dir |-> dir, ok |-> ok,
                                                end |-> "running"])]
    /\ UNCHANGED <<files, plugin, scanVars, single, pos, rule>>

\* if path.exists(): without the directory the call returns
MakePluginExists ==
    /\ srv.mk = "exists"
    /\ srv' = IF ThisCall.dir
              THEN [srv EXCEPT !.mk = "write"]
              ELSE [srv EXCEPT !.mk = "idle", !.log = Ended("returned")]
    /\ UNCHANGED <<files, plugin, scanVars, single, pos, rule>>

\* self.plugin.write().unwrap(): waits for the lock to be free; on a poisoned
\* lock write() is Err and the unwrap panics
MakePluginWrite ==
    /\ srv.mk = "write"
    /\ ~srv.writer
    /\ srv.readers = {}
    /\ srv' = IF plugin.poisoned
              THEN [srv EXCEPT !.mk = "idle", !.log = Ended("panicked")]
              ELSE [srv EXCEPT !.mk = "new", !.writer = TRUE]
    /\ UNCHANGED <<files, plugin, scanVars, single, pos, rule>>

\* LinterPlugin::new(&path).unwrap(), the argument of replace, evaluated with
\* the write guard held: on Err the unwrap panics and the guard, dropped while
\* unwinding, poisons the lock
MakePluginNew ==
    /\ srv.mk = "new"
    /\ IF ThisCall.ok
       THEN /\ srv' = [srv EXCEPT !.mk = "replace"]
            /\ UNCHANGED plugin
       ELSE /\ srv' = [srv EXCEPT !.mk = "idle", !.writer = FALSE,
                                  !.log = Ended("panicked")]
            /\ plugin' = [plugin EXCEPT !.poisoned = TRUE]
    /\ UNCHANGED <<files, scanVars, single, pos, rule>>

\* plugin.replace(..): the slot holds the new instance, the old one is dropped
MakePluginReplace ==
    /\ srv.mk = "replace"
    /\ plugin' = [plugin EXCEPT !.value = Some(Len(srv.log))]
    /\ srv' = [srv EXCEPT !.mk = "drop"]
    /\ UNCHANGED <<files, scanVars, single, pos, rule>>

\* the end of the if block: the write guard is dropped, the call returns
MakePluginDrop ==
    /\ srv.mk = "drop"
    /\ srv' = [srv EXCEPT !.mk = "idle", !.writer = FALSE,
                          !.log = Ended("returned")]
    /\ UNCHANGED <<files, plugin, scanVars, single, pos, rule>>

\* lint_path up to the plugin block: with a parse or a semantic error it
\* returns before touching the slot
LintPathParse(p) ==
    /\ srv.pipe[p] = "start"
    /\ srv' = IF parse_failed(files[p]) \/ semantic_failed(files[p])
              THEN [srv EXCEPT !.pipe[p] = "returned"]
              ELSE [srv EXCEPT !.pipe[p] = "read"]
    /\ UNCHANGED <<files, plugin, scanVars, single, pos, rule>>

\* if let Ok(guard) = plugin.read(): waits while the write guard is held; on a
\* poisoned lock read() is Err and the block is skipped
LintPathRead(p) ==
    /\ srv.pipe[p] = "read"
    /\ ~srv.writer
    /\ srv' = IF plugin.poisoned
              THEN [srv EXCEPT !.pipe[p] = "run"]
              ELSE [srv EXCEPT !.pipe[p] = "guard", !.readers = @ \cup {p}]
    /\ UNCHANGED <<files, plugin, scanVars, single, pos, rule>>

\* if let Some(plugin) = &*guard { plugin.lint_file(..).unwrap() }: a failing
\* plugin panics, and the read guard is dropped while unwinding
LintPathLintFile(p) ==
    /\ srv.pipe[p] = "guard"
    /\ \E stage \in {plugin_stage(plugin, files[p])} :
          srv' = IF stage = "panic"
                 THEN [srv EXCEPT !.pipe[p] = "panicked", !.readers = @ \ {p}]
                 ELSE [srv EXCEPT !.pipe[p] = "unguard",
                                  !.invoked[p] = (stage = "ok")]
    /\ UNCHANGED <<files, plugin, scanVars, single, pos, rule>>

\* the end of the if let block: the read guard is dropped
LintPathDropGuard(p) ==
    /\ srv.pipe[p] = "unguard"
    /\ srv' = [srv EXCEPT !.pipe[p] = "run", !.readers = @ \ {p}]
    /\ UNCHANGED <<files, plugin, scanVars, single, pos, rule>>

\* drop(plugin), linter.run(lint_ctx) and the rest of lint_path
LintPathRun(p) ==
    /\ srv.pipe[p] = "run"
    /\ srv' = [srv EXCEPT !.pipe[p] = "returned"]
    /\ UNCHANGED <<files, plugin, scanVars, single, pos, rule>>

NextSession ==
    \/ MakePluginEnter
    \/ MakePluginExists
    \/ MakePluginWrite
    \/ MakePluginNew
    \/ MakePluginReplace
    \/ MakePluginDrop
    \/ \E p \in Paths : LintPathParse(p)
    \/ \E p \in Paths : LintPathRead(p)
    \/ \E p \in Paths : LintPathLintFile(p)
    \/ \E p \in Paths : LintPathDropGuard(p)
    \/ \E p \in Paths : LintPathRun(p)

SpecSession == InitSession /\ [][NextSession]_vars

(***************************************************************************)
(* Properties of run_full.                                                 *)
(***************************************************************************)
EntriesOf(path) == {i \in 1..Len(result) : result[i].path = path}

\* C1: when run_full returns, every discovered path has been analysed, and the
\* list holds exactly one entry for each path whose lint_path returned findings
\* (that worker's findings, translated) and no entry for any other path.
C1_ExactlyOneEntryPerFinding ==
    mainPc = "returned" =>
        /\ \A i \in 1..Len(result) : result[i].path \in Paths
        /\ \A path \in Paths :
              /\ workerPc[path] = "done"
              /\ workerRet[path].kind \in {"Some", "None"}
              /\ Cardinality(EntriesOf(path))
                    = IF workerRet[path].kind = "Some" THEN 1 ELSE 0
              /\ \A i \in EntriesOf(path) :
                    result[i].reports = Reports(workerRet[path].errors, path)

\* a scan of two or more files of which exactly one has findings returns one entry
C1_Witness ==
    /\ mainPc = "returned"
    /\ Len(result) = 1
    /\ \E path \in Paths : workerRet[path].kind = "None"
    /\ \E path \in Paths : workerRet[path].kind = "Some"

\* C2: under fair scheduling run_full returns unless a task fails (which aborts
\* the process), and it never returns while the producer has not finished or a
\* worker has not dropped its sender.
C2_ReturnsOnceAllSendersDropped ==
    /\ <>(mainPc = "returned" \/ aborted)
    /\ [](mainPc = "returned" =>
            /\ producerPc = "done"
            /\ dispatcherPc = "done"
            /\ txErrorHolders = {}
            /\ \A path \in Paths : workerPc[path] = "done")

\* run_full has returned with every file's result, the result channel closed
C2_Witness ==
    /\ mainPc = "returned"
    /\ ~aborted
    /\ ~rxErrorAlive
    /\ Len(result) = NumPaths

\* what the pipeline yields for the file at a path during a scan
ScanLint(path) == lint_path(ServerLinterConfig, path, files[path], plugin, None)

\* C3: once the scan is over (run_full has returned or the process is gone),
\* every file whose own analysis yields findings is in the result, whatever
\* happened to the other files.
C3_FailureIsPerFile ==
    (mainPc = "returned" \/ aborted) =>
        \A path \in Paths : ScanLint(path).kind = "Some" => EntriesOf(path) # {}

\* C6: no entry of the scan result has an empty diagnostic list.
C6_NoEmptyEntry ==
    \A i \in 1..Len(result) : Len(result[i].reports) > 0

\* a file that passes every stage without a finding is left out of a result
\* that has entries
C6_Witness ==
    /\ mainPc = "returned"
    /\ result # <<>>
    /\ \E path \in Paths :
          /\ workerRet[path].kind = "None"
          /\ workerRet[path].stages = <<"parse", "semantic", "rules">>
          /\ EntriesOf(path) = {}

\* C9: each list of the scan result is the list run_single returns for the same
\* file: the primary diagnostics followed by the inverted hints.
C9_FullListEqualsSingleList ==
    mainPc = "returned" =>
        \A i \in 1..Len(result) :
            LET path == result[i].path
                one == run_single(ServerLinterConfig, path, files[path], plugin, None)
            IN  one.kind = "Some" /\ result[i].reports = one.list

\* the producer is about to send a path
ProducerSending == producerPc = "walking" /\ walked # Paths

\* the worker of a path is about to send its result
WorkerSending(path) == workerPc[path] = "linted" /\ workerRet[path].kind = "Some"

\* C22: no send of run_full fails.  rx_path is alive whenever the producer is
\* about to send, because the dispatcher stops receiving only once tx_path is
\* dropped; rx_error is alive whenever a worker is about to send, because
\* aggregation returns only once every clone of tx_error is dropped.
C22_NoSendFails ==
    /\ ProducerSending => rxPathAlive
    /\ \A path \in Paths : WorkerSending(path) => rxErrorAlive
    /\ dispatcherPc = "done" => ~txPathAlive
    /\ mainPc = "returned" => txErrorHolders = {}

\* the dispatcher is gone, and with it rx_path and the original tx_error; one
\* worker has sent its result through its clone, another is about to
C22_Witness ==
    /\ ~aborted
    /\ dispatcherPc = "done"
    /\ walked = Paths
    /\ \E p, q \in Paths :
          /\ workerPc[p] = "sent"
          /\ WorkerSending(q)
          /\ rxErrorAlive

(***************************************************************************)
(* Properties of lint_path and run_single.                                 *)
(***************************************************************************)
\* the call reached the parser: a wanted extension and a text to analyse
SourceAvailable ==
    /\ single.pc = "done"
    /\ is_wanted_ext(files[1].ext)
    /\ (single.content.some \/ files[1].readable)

\* the errors are exactly the given ones, in order, each without a fix
ExactlyWithoutFix(errors, given) ==
    /\ Len(errors) = Len(given)
    /\ \A i \in 1..Len(given) :
          /\ errors[i].miette_err = given[i]
          /\ errors[i].fixed_content = None

\* C4: with a parse error only the parser ran and the result is the parse
\* errors, each without fix; with no parse error and a semantic error only the
\* parser and the semantic builder ran and the result is the semantic errors,
\* each without fix.
C4_ShortCircuit ==
    SourceAvailable =>
        LET lint == single.ret.lint
            file == files[1]
        IN  /\ file.parse_errors # <<>> =>
                  /\ lint.kind = "Some"
                  /\ lint.stages = <<"parse">>
                  /\ ExactlyWithoutFix(lint.errors, file.parse_errors)
            /\ (file.parse_errors = <<>> /\ file.semantic_errors # <<>>) =>
                  /\ lint.kind = "Some"
                  /\ lint.stages = <<"parse", "semantic">>
                  /\ ExactlyWithoutFix(lint.errors, file.semantic_errors)

\* a file with parse errors whose later stages would all have had findings
C4_Witness ==
    /\ SourceAvailable
    /\ files[1].parse_errors # <<>>
    /\ files[1].semantic_errors # <<>>
    /\ files[1].messages # <<>>
    /\ plugin.value.some
    /\ Len(single.ret.list) >= Len(files[1].parse_errors)

\* the call reached the plugin stage with a plugin in the slot
PluginInvoked ==
    /\ SourceAvailable
    /\ files[1].parse_errors = <<>>
    /\ files[1].semantic_errors = <<>>
    /\ plugin.value.some
    /\ ~plugin.poisoned

\* C5: when the plugin's invocation fails, lint_path returns nothing (the
\* failure propagates as a panic) and the rule engine has not run.
C5_PluginFailurePropagates ==
    (PluginInvoked /\ ~files[1].plugin_ok) =>
        /\ single.ret.kind = "Panic"
        /\ single.ret.lint.kind = "Panic"
        /\ single.ret.lint.stages = <<"parse", "semantic", "plugin">>

\* the plugin fails on a file for which the rule engine has findings
C5_Witness ==
    /\ PluginInvoked
    /\ ~files[1].plugin_ok
    /\ files[1].messages # <<>>
    /\ single.ret.kind = "Panic"

RangeKey(r) == <<r.start.line, r.start.character, r.end.line, r.end.character>>

\* lexicographic order on (start line, start column, end line, end column)
LexLess(a, b) ==
    \E i \in 1..4 :
        /\ \A j \in 1..(i - 1) : RangeKey(a)[j] = RangeKey(b)[j]
        /\ RangeKey(a)[i] < RangeKey(b)[i]

\* the primary diagnostics of the returned list: one per finding, first
Primaries ==
    IF single.pc = "done" /\ single.ret.kind = "Some" /\ single.ret.lint.kind = "Some"
    THEN SubSeq(single.ret.list, 1, Len(single.ret.lint.errors))
    ELSE <<>>

RelatedRanges(d) ==
    {d.diagnostic.related_information[j].range :
        j \in 1..Len(d.diagnostic.related_information)}

\* C7: the range of every primary diagnostic is the least of the ranges of its
\* related information (its labeled spans) in the lexicographic order.
C7_PrimaryRangeIsLeast ==
    \A k \in 1..Len(Primaries) :
        LET d == Primaries[k]
        IN  /\ Len(d.diagnostic.related_information) >= 1
            /\ d.diagnostic.range \in RelatedRanges(d)
            /\ \A r \in RelatedRanges(d) : ~LexLess(r, d.diagnostic.range)

\* three labels with three different ranges, the least of them the last
C7_Witness ==
    \E k \in 1..Len(Primaries) :
        LET rel == Primaries[k].diagnostic.related_information
        IN  /\ Len(rel) = 3
            /\ Cardinality(RelatedRanges(Primaries[k])) = 3
            /\ Primaries[k].diagnostic.range = rel[3].range
            /\ rel[1].range.start = rel[3].range.start

\* the related entries of primary k whose range is not the primary range
Differing(k) ==
    LET d == Primaries[k]
    IN  {j \in 1..Len(d.diagnostic.related_information) :
            d.diagnostic.related_information[j].range # d.diagnostic.range}

RECURSIVE HintsBefore(_)
HintsBefore(k) ==
    IF k <= 1 THEN 0 ELSE Cardinality(Differing(k - 1)) + HintsBefore(k - 1)

\* C8: the list is the primaries followed by, for each primary in order and for
\* each of its related entries in order whose range is not the primary range,
\* one hint: at that range, of hint severity, without fix, with exactly one
\* related entry, which points at the primary range.
C8_InvertedHints ==
    (single.pc = "done" /\ single.ret.kind = "Some" /\ single.ret.lint.kind = "Some") =>
        LET n == Len(Primaries)
            list == single.ret.list
        IN  /\ Len(list) = n + HintsBefore(n + 1)
            /\ \A k \in 1..n : \A j \in Differing(k) :
                  LET at == n + HintsBefore(k)
                              + Cardinality({i \in Differing(k) : i <= j})
                      hint == list[at].diagnostic
                      rel == Primaries[k].diagnostic.related_information[j]
                  IN  /\ hint.range = rel.range
                      /\ hint.severity = "HINT"
                      /\ hint.message = <<rel.message>>
                      /\ list[at].fixed_content = None
                      /\ Len(hint.related_information) = 1
                      /\ hint.related_information[1].range
                            = Primaries[k].diagnostic.range
                      /\ hint.related_information[1].message = "original diagnostic"

\* one finding with two related locations other than its range: three diagnostics
C8_Witness ==
    /\ Len(Primaries) = 1
    /\ Cardinality(Differing(1)) = 2
    /\ Len(single.ret.list) = 3

\* the text the call analysed: what get_source_type_and_text handed the parser
AnalysedText == get_source_type_and_text(files[1], single.content).text

\* the findings the pipeline hands to the translator, in order: the parse
\* errors, else the semantic errors, else the messages of the rule engine
Emitted ==
    LET file == files[1]
    IN  IF parse_failed(file) THEN file.parse_errors
        ELSE IF semantic_failed(file) THEN file.semantic_errors
        ELSE IF plugin_stage(plugin, file) = "panic" THEN <<>>
        ELSE LET msgs == linter_run(file, plugin_stage(plugin, file) = "ok")
             IN  [i \in 1..Len(msgs) |-> msgs[i].error]

\* the fix each of those findings came with: none for a parse or semantic error
EmittedFixes ==
    LET file == files[1]
    IN  IF parse_failed(file) \/ semantic_failed(file)
        THEN [k \in 1..Len(Emitted) |-> None]
        ELSE IF plugin_stage(plugin, file) = "panic" THEN <<>>
        ELSE LET msgs == linter_run(file, plugin_stage(plugin, file) = "ok")
             IN  [k \in 1..Len(msgs) |-> msgs[k].fix]

\* the call handed findings to the translator, each with a labeled span
Translating ==
    /\ SourceAvailable
    /\ LET em == Emitted
       IN  /\ em # <<>>
           /\ \A k \in 1..Len(em) : em[k].labels # <<>>

BeyondEnd(offset) == offset > ByteLen(AnalysedText)

\* the position of an endpoint, translated by itself
AloneAt(offset) ==
    IF BeyondEnd(offset) THEN DefaultPosition
    ELSE unwrap_or_default(offset_to_position(offset, AnalysedText))

\* C11: an offset beyond the end of the text has no position, and the label
\* endpoint there becomes (0,0) while the file's result is still produced: one
\* entry per finding, one position pair per label, every other endpoint
\* translated as it is by itself.
C11_OutOfRangeIsLocal ==
    Translating =>
        LET lint == single.ret.lint
            em == Emitted
            fx == EmittedFixes
            text == AnalysedText
        IN  /\ single.ret.kind = "Some"
            /\ lint.kind = "Some"
            /\ Len(lint.errors) = Len(em)
            /\ \A k \in 1..Len(em) :
                  /\ lint.errors[k].miette_err = em[k]
                  /\ Len(lint.errors[k].labels_with_pos) = Len(em[k].labels)
                  /\ (single.linter.fix /\ fx[k].some) =>
                        /\ lint.errors[k].fixed_content.some
                        /\ lint.errors[k].fixed_content.val.range
                              = Range(AloneAt(fx[k].val.start),
                                      AloneAt(fx[k].val.end))
                  /\ \A i \in 1..Len(em[k].labels) :
                        LET l == em[k].labels[i]
                            lp == lint.errors[k].labels_with_pos[i]
                        IN  /\ BeyondEnd(l.offset) =>
                                  ~offset_to_position(l.offset, text).some
                            /\ BeyondEnd(l.offset + l.len) =>
                                  ~offset_to_position(l.offset + l.len, text).some
                            /\ lp.start_pos = AloneAt(l.offset)
                            /\ lp.end_pos = AloneAt(l.offset + l.len)

\* two findings; a label of the first ends beyond the text and becomes (0,0)
\* there, while another endpoint of the same finding keeps its own position
C11_Witness ==
    /\ Translating
    /\ Len(single.ret.lint.errors) = 2
    /\ \E i \in 1..Len(Emitted[1].labels) :
          /\ BeyondEnd(Emitted[1].labels[i].offset + Emitted[1].labels[i].len)
          /\ ~BeyondEnd(Emitted[1].labels[i].offset)
          /\ single.ret.lint.errors[1].labels_with_pos[i].end_pos = DefaultPosition
          /\ single.ret.lint.errors[1].labels_with_pos[i].start_pos # DefaultPosition

\* the pipeline's dialect resolution succeeds for the file: directly from the
\* extension or through a partial loader (given a text, so that no read fails)
Resolves(file) == get_source_type_and_text(file, Some(<<>>)).kind = "Some"

OverrideText ==
    IF files[1].ext \in LINT_PARTIAL_LOADER_EXT
    THEN partial_loader_parse(single.content.val)
    ELSE single.content.val

\* every label of every returned finding is positioned in the given text
PositionedIn(text) ==
    single.ret.lint.kind = "Some" =>
        \A k \in 1..Len(single.ret.lint.errors) :
            LET e == single.ret.lint.errors[k]
            IN  \A i \in 1..Len(e.labels_with_pos) :
                    e.labels_with_pos[i]
                        = LabeledSpanWithPosition(e.miette_err.labels[i], text)

\* C13: with override text the pipeline analyses that text (for a template
\* file, the script extracted from it) and does not read the disk, readable or
\* not; without override text it reads the disk.
C13_OverrideNoDiskRead ==
    (single.pc = "done" /\ Resolves(files[1])) =>
        IF single.content.some
        THEN /\ ~single.ret.lint.disk_read
             /\ \/ single.ret.kind = "Some"
                \/ single.ret.lint.stages # <<>>
             /\ AnalysedText = OverrideText
             /\ PositionedIn(OverrideText)
        ELSE /\ single.ret.lint.disk_read
             /\ files[1].readable => PositionedIn(AnalysedText)
             /\ ~files[1].readable => single.ret.kind = "Panic"

\* the buffer differs from the disk, and a label is positioned where it lies in
\* the buffer, not where it lies on disk
C13_Witness ==
    /\ single.pc = "done"
    /\ single.content.some
    /\ single.ret.kind = "Some"
    /\ single.ret.lint.kind = "Some"
    /\ ~single.ret.lint.disk_read
    /\ single.ret.lint.errors[1].labels_with_pos[1]
          # LabeledSpanWithPosition(single.ret.lint.errors[1].miette_err.labels[1],
                                    files[1].text)

\* the byte offset at which a line starts (the line-start lookup on bytes)
LineStartByte(text, line) ==
    IF line = 0 THEN 0 ELSE ByteOfChar(text, BreakAt(text, line, 1))

\* the position of a byte offset in the analysed text, as the translator maps it
MappedAt(offset) == unwrap_or_default(offset_to_position(offset, AnalysedText))

\* in a text of one-byte characters, the position of an offset within the text
\* is the line that holds it and the distance from that line's start
ExactIn(text, offset, p) ==
    (offset <= Len(text) /\ \A i \in 1..Len(text) : CharWidth(text[i]) = 1) =>
        /\ p.line = BreaksBefore(text, offset)
        /\ LineStartByte(text, p.line) + p.character = offset

\* C14: the report of a rule violation with a fix carries, in fix mode, the
\* fix's text unchanged and the range from the mapped start offset to the mapped
\* end offset, and no fix when fix mode is off; the report of a violation
\* without a fix, of a parse error or of a semantic error carries no fix.
C14_FixMapping ==
    Translating =>
        LET fx == EmittedFixes
            text == AnalysedText
        IN  \A k \in 1..Len(fx) :
                LET fix == fx[k]
                    got == single.ret.list[k].fixed_content
                IN  /\ single.ret.lint.errors[k].fixed_content = got
                    /\ IF fix.some /\ single.linter.fix
                       THEN /\ got.some
                            /\ got.val.code = fix.val.content
                            /\ got.val.range = Range(MappedAt(fix.val.start),
                                                     MappedAt(fix.val.end))
                            /\ ExactIn(text, fix.val.start, got.val.range.start)
                            /\ ExactIn(text, fix.val.end, got.val.range.end)
                       ELSE got = None

\* fix mode on: a violation whose fix replaces one character of the second
\* line, followed by a violation without a fix
C14_Witness ==
    /\ Translating
    /\ single.linter.fix
    /\ Len(Emitted) = 2
    /\ EmittedFixes[1].some
    /\ ~EmittedFixes[2].some
    /\ single.ret.list[1].fixed_content.some
    /\ single.ret.list[1].fixed_content.val.range
          = Range(Position(1, 0), Position(1, 1))
    /\ single.ret.list[2].fixed_content = None

RECURSIVE OriginsFrom(_, _)
OriginsFrom(k, i) ==
    IF k > Len(Primaries) THEN <<>>
    ELSE IF i > Len(Primaries[k].diagnostic.related_information)
    THEN OriginsFrom(k + 1, 1)
    ELSE (IF i \in Differing(k) THEN <<[k |-> k, i |-> i]>> ELSE <<>>)
         \o OriginsFrom(k, i + 1)

\* C19: the list starts with one primary diagnostic per finding, in the order
\* the pipeline emitted the findings and with the labels of each in their
\* order; everything after them is a hint; the hints follow the order of their
\* primary diagnostics and, for one primary, the order of its labels.
C19_EmissionOrder ==
    (Translating /\ single.ret.kind = "Some") =>
        LET list == single.ret.list
            em == Emitted
            n == Len(em)
            origins == OriginsFrom(1, 1)
        IN  /\ Len(list) = n + Len(origins)
            /\ \A k \in 1..n :
                  LET d == list[k].diagnostic
                  IN  /\ d.severity # "HINT"
                      /\ d.message = MessageOf(em[k])
                      /\ Len(d.related_information) = Len(em[k].labels)
                      /\ \A i \in 1..Len(em[k].labels) :
                            LET l == em[k].labels[i]
                            IN  d.related_information[i].range
                                  = Range(MappedAt(l.offset), MappedAt(l.offset + l.len))
            /\ \A j \in 1..Len(origins) :
                  LET hint == list[n + j].diagnostic
                      from == list[origins[j].k].diagnostic
                  IN  /\ hint.severity = "HINT"
                      /\ hint.range = from.related_information[origins[j].i].range
                      /\ hint.message = <<from.related_information[origins[j].i].message>>
                      /\ hint.related_information[1].range = from.range

\* two findings; the first has two hints at different ranges, the second one
\* more: primary, primary, the first's hints in label order, the second's hint
C19_Witness ==
    /\ Translating
    /\ single.ret.kind = "Some"
    /\ Len(Emitted) = 2
    /\ Len(single.ret.list) = 5
    /\ Cardinality(Differing(1)) = 2
    /\ single.ret.list[3].diagnostic.range # single.ret.list[4].diagnostic.range
    /\ single.ret.list[5].diagnostic.related_information[1].range
          = single.ret.list[2].diagnostic.range
    /\ single.ret.list[2].diagnostic.range # single.ret.list[1].diagnostic.range

WellFormed(range) == cmp_position(range.start, range.end) # "Greater"

\* C23: every range the translator produces is well-formed: the position pair
\* of every labeled span, the range of every primary diagnostic and of every
\* inverted hint, every related location and every fix range, for every text
\* and every span, a span that ends beyond the end of the text included.
C23_RangesWellFormed ==
    (SourceAvailable /\ single.ret.kind = "Some" /\ single.ret.lint.kind = "Some") =>
        /\ \A k \in 1..Len(single.ret.lint.errors) :
              LET e == single.ret.lint.errors[k]
              IN  /\ \A i \in 1..Len(e.labels_with_pos) :
                        WellFormed(Range(e.labels_with_pos[i].start_pos,
                                         e.labels_with_pos[i].end_pos))
                  /\ (e.fixed_content.some => WellFormed(e.fixed_content.val.range))
        /\ \A j \in 1..Len(single.ret.list) :
              LET r == single.ret.list[j]
              IN  /\ WellFormed(r.diagnostic.range)
                  /\ \A i \in 1..Len(r.diagnostic.related_information) :
                        WellFormed(r.diagnostic.related_information[i].range)
                  /\ (r.fixed_content.some => WellFormed(r.fixed_content.val.range))

(***************************************************************************)
(* Properties of the plugin slot and its lock.                             *)
(***************************************************************************)
\* C16: the write guard is held only while the slot's value is replaced, never
\* while the new instance is constructed; a pipeline holds a read guard only
\* around its plugin invocation, not before it and not once the rule engine
\* runs or the pipeline is over.
C16_LocksHeldMomentarily ==
    /\ srv.mk = "new" => ~srv.writer
    /\ srv.writer => srv.mk \in {"replace", "drop"}
    /\ \A p \in Paths :
          p \in srv.readers <=> srv.pipe[p] \in {"guard", "unguard"}

\* the calls that found the plugin directory with a plugin that loads
Built == {k \in 1..Len(srv.log) : srv.log[k].dir /\ srv.log[k].ok}

\* the instance of the latest of them
LatestBuilt ==
    IF Built = {} THEN None
    ELSE Some(CHOOSE k \in Built : \A j \in Built : j <= k)

\* C17: between make_plugin calls the slot holds the instance constructed by
\* the latest call that found the plugin directory, and nothing when no call
\* found it; a call that does not find the directory leaves the slot as it was.
C17_SlotHoldsLatestInstance ==
    /\ srv.mk = "idle" => plugin.value = LatestBuilt
    /\ (srv.mk = "exists" /\ ~ThisCall.dir) => plugin.value = LatestBuilt

\* the step at which pipeline p leaves the plugin block for the rule engine
EntersRuleEngine(p) == srv.pipe[p] # "run" /\ srv'.pipe[p] = "run"

\* C21: a pipeline that passed the parse and semantic stages moves on to the
\* rule engine with the plugin invoked whenever the slot holds a plugin at
\* that step, also after a make_plugin call that failed while constructing a
\* replacement.
C21_PluginNeverSkipped ==
    [][\A p \in Paths :
          (EntersRuleEngine(p) /\ plugin.value.some) => srv'.invoked[p]]_vars

(***************************************************************************)
(* One call of offset_to_position: every text up to MaxTextLen characters, *)
(* every offset up to one byte past its end.                               *)
(***************************************************************************)
InitPos ==
    /\ FullIdle
    /\ single = Idle
    /\ srv = Idle
    /\ rule = Idle
    /\ files = <<>>
    /\ plugin = Slot(None)
    /\ \E t \in SeqsOf(Chars, 0, MaxTextLen) : \E o \in 0..(ByteLen(t) + 1) :
          pos = [pc |-> "called", text |-> t, offset |-> o]

OffsetToPosition ==
    /\ pos.pc = "called"
    /\ pos' = [pos EXCEPT !.pc = "done"] @@
              [ret |-> offset_to_position(pos.offset, pos.text)]
    /\ UNCHANGED <<fullVars, single, srv, rule>>

NextPos == OffsetToPosition

SpecPos == InitPos /\ [][NextPos]_vars

\* C10: for every text and every in-bounds byte offset (on a character
\* boundary), offset_to_position returns a position (line, column) such that the
\* byte offset at which that line starts, plus the column, is the offset.
C10_OffsetRoundTrip ==
    (pos.pc = "done" /\ pos.offset \in CharBoundaries(pos.text))
        => /\ pos.ret.some
           /\ pos.ret.val.line < len_lines(pos.text)
           /\ LineStartByte(pos.text, pos.ret.val.line) + pos.ret.val.character
                = pos.offset

(***************************************************************************)
(* The rule unicorn/prefer-reflect-apply (prefer_reflect_apply.rs): one    *)
(* visit of PreferReflectApply::run.  An expression is a record with a     *)
(* kind; a member expression has an object and the result of               *)
(* static_property_name(): the name, or None for a computed key that is no *)
(* string.  An argument is an expression or a spread element.              *)
(***************************************************************************)
MaxArguments == 3

Identifier(name) == [kind |-> "Identifier", name |-> name]

Expr(kind) == [kind |-> kind]

MemberExpression(object, property) ==
    [kind |-> "MemberExpression", object |-> object, property |-> property]

\* Expression::is_literal
is_literal(expr) ==
    expr.kind \in {"BooleanLiteral", "NullLiteral", "NumericLiteral",
                   "BigintLiteral", "RegExpLiteral", "StringLiteral"}

\* a plausible slip: the name of the identifier is not looked at
is_apply_signature_any_identifier(argument_1, argument_2) ==
    IF argument_1.kind # "Expression" THEN FALSE
    ELSE IF argument_2.kind # "Expression" THEN FALSE
    ELSE IF argument_1.expr.kind \in {"ThisExpression", "NullLiteral"}
    THEN IF argument_2.expr.kind = "ArrayExpression" THEN TRUE
         ELSE argument_2.expr.kind = "Identifier"
    ELSE FALSE

is_apply_signature(argument_1, argument_2) ==
    IF argument_1.kind # "Expression" THEN FALSE
    ELSE IF argument_2.kind # "Expression" THEN FALSE
    ELSE IF argument_1.expr.kind \in {"ThisExpression", "NullLiteral"}
    THEN IF argument_2.expr.kind = "ArrayExpression" THEN TRUE
         ELSE IF argument_2.expr.kind = "Identifier"
         THEN argument_2.expr.name = "arguments"
         ELSE FALSE
    ELSE FALSE

is_static_property_name_equal(expr, value) ==
    expr.property.some /\ expr.property.val = value

\* the second test of run: the callee is <Function.prototype.apply>.call
is_function_prototype_apply_call(call_expr) ==
    LET member_expr == call_expr.callee
    IN  IF ~is_static_property_name_equal(member_expr, "call") THEN FALSE
        ELSE IF member_expr.object.kind # "MemberExpression" THEN FALSE
        ELSE IF ~is_static_property_name_equal(member_expr.object, "apply") THEN FALSE
        ELSE IF member_expr.object.object.kind # "MemberExpression" THEN FALSE
        ELSE IF ~is_static_property_name_equal(member_expr.object.object, "prototype")
        THEN FALSE
        ELSE IF member_expr.object.object.object.kind # "Identifier" THEN FALSE
        ELSE /\ member_expr.object.object.object.name = "Function"
             /\ Len(call_expr.arguments) = 3
             /\ is_apply_signature(call_expr.arguments[2], call_expr.arguments[3])

\* PreferReflectApply::run: the spans handed to ctx.diagnostic, in order
run(node) ==
    IF node.kind # "CallExpression" THEN <<>>
    ELSE IF node.callee.kind # "MemberExpression" THEN <<>>
    ELSE IF \/ node.optional
            \/ node.callee.object.kind = "ArrayExpression"
            \/ node.callee.object.kind = "ObjectExpression"
            \/ is_literal(node.callee.object)
    THEN <<>>
    ELSE IF /\ is_static_property_name_equal(node.callee, "apply")
            /\ Len(node.arguments) = 2
            /\ is_apply_signature(node.arguments[1], node.arguments[2])
    THEN <<node.span>>
    ELSE IF is_function_prototype_apply_call(node)
    THEN <<node.span>>
    ELSE <<>>

\* the objects a chain of member expressions starts from
Objects ==
    {Identifier("foo"), Identifier("Function"), Expr("ArrayExpression"),
     Expr("ObjectExpression"), Expr("NumericLiteral"), Expr("StringLiteral")}

\* what static_property_name yields
Properties ==
    {Some("apply"), Some("call"), Some("prototype"), Some("bar"), None}

\* foo.p, foo.p.q and foo.p.q.r, the deepest chain run looks into, over every
\* object at the first level; and a callee that is no member expression
Callees ==
    { MemberExpression(o, p) : o \in Objects, p \in Properties }
    \cup { MemberExpression(MemberExpression(o, p), q) :
              o \in {Identifier("foo"), Identifier("Function")},
              p \in Properties \ {None}, q \in Properties }
    \cup { MemberExpression(MemberExpression(MemberExpression(o, p), q), r) :
              o \in {Identifier("foo"), Identifier("Function")},
              p \in {Some("prototype"), Some("bar")},
              q \in {Some("apply"), Some("call")},
              r \in Properties }
    \cup { Identifier("apply") }

Arguments ==
    { [kind |-> "Expression", expr |-> e] :
         e \in {Expr("ThisExpression"), Expr("NullLiteral"), Expr("ArrayExpression"),
                Identifier("arguments"), Identifier("bar"), Expr("NumericLiteral")} }
    \cup { [kind |-> "SpreadElement"] }

InitRule ==
    /\ FullIdle
    /\ files = <<>>
    /\ plugin = Slot(None)
    /\ single = Idle
    /\ pos = Idle
    /\ srv = Idle
    /\ \/ \E callee \in Callees, optional \in BOOLEAN :
            \E arguments \in SeqsOf(Arguments, 0, MaxArguments) :
                rule = [pc |-> "visit",
                        node |-> [kind |-> "CallExpression", span |-> "span",
                                  optional |-> optional, callee |-> callee,
                                  arguments |-> arguments]]
       \/ \E callee \in Callees :
            rule = [pc |-> "visit", node |-> callee @@ [span |-> "span"]]

Run ==
    /\ rule.pc = "visit"
    /\ rule' = [rule EXCEPT !.pc = "done"] @@ [reports |-> run(rule.node)]
    /\ UNCHANGED <<fullVars, single, pos, srv>>

NextRule == Run

SpecRule == InitRule /\ [][NextRule]_vars

\* the signature of apply: (this | null, [..] | arguments)
ApplySignature(a, b) ==
    /\ a \in {[kind |-> "Expression", expr |-> Expr("ThisExpression")],
              [kind |-> "Expression", expr |-> Expr("NullLiteral")]}
    /\ \/ b = [kind |-> "Expression", expr |-> Expr("ArrayExpression")]
       \/ b = [kind |-> "Expression", expr |-> Identifier("arguments")]

FunctionPrototypeApplyCall ==
    MemberExpression(
        MemberExpression(
            MemberExpression(Identifier("Function"), Some("prototype")),
            Some("apply")),
        Some("call"))

\* what the rule is to report
Reportable(node) ==
    /\ node.kind = "CallExpression"
    /\ ~node.optional
    /\ node.callee.kind = "MemberExpression"
    /\ node.callee.object.kind \notin {"ArrayExpression", "ObjectExpression"}
    /\ ~is_literal(node.callee.object)
    /\ \/ /\ node.callee.property = Some("apply")
          /\ Len(node.arguments) = 2
          /\ ApplySignature(node.arguments[1], node.arguments[2])
       \/ /\ node.callee = FunctionPrototypeApplyCall
          /\ Len(node.arguments) = 3
          /\ ApplySignature(node.arguments[2], node.arguments[3])

\* C18: the rule reports a node exactly when it is a non-optional call on a
\* member expression whose object is no array, object or other literal, and
\* either the property is apply with arguments (this | null, [..] | arguments)
\* or the callee is Function.prototype.apply.call with three arguments of which
\* the last two are such; it reports at most once, at the span of the call.
C18_ReportsExactlyApplyCalls ==
    rule.pc = "done" =>
        /\ Len(rule.reports) <= 1
        /\ Len(rule.reports) = 1 <=> Reportable(rule.node)
        /\ Len(rule.reports) = 1 => rule.reports[1] = rule.node.span

\* Function.prototype.apply.call(foo, null, arguments) is reported once
C18_Witness ==
    /\ rule.pc = "done"
    /\ rule.node.kind = "CallExpression"
    /\ rule.node.callee = FunctionPrototypeApplyCall
    /\ Len(rule.node.arguments) = 3
    /\ rule.node.arguments[3] = [kind |-> "Expression", expr |-> Identifier("arguments")]
    /\ Len(rule.reports) = 1

====
